---- MODULE Spec2Model ----
(***************************************************************************)
(* Model of GXP_ImageChunkingProject/app.py: an MQTT subscriber that       *)
(* buffers numbered image chunks in three module-level globals and, on a   *)
(* zero-length end marker, stitches them and hands the image to Supabase   *)
(* storage (upload, then a table insert).  One action per branch of        *)
(* on_message; the storage sink's outcome is an input of the action.       *)
(* on_message catches nothing and the client is created with paho's        *)
(* defaults, under which an exception raised by a callback is re-raised    *)
(* out of loop_forever: the script ends and handles no further message.    *)
(* calls, delivered, superseded, opened, idle and foreign are history       *)
(* variables: they record what the handler did and was given, and no       *)
(* handler reads them.  Spec takes each on_message call as one step;        *)
(* SpecIO splits the storage handoff at its two blocking calls, SpecIdle    *)
(* lets time pass between messages, and SpecTransport lets the broker       *)
(* deliver a chunk message of a superseded transfer late.                   *)
(***************************************************************************)
EXTENDS Integers, Sequences, FiniteSets, TLC

\* ---------------------------------------------------------------- bounds
\* Largest total_chunks a metadata message announces.
MaxTotalChunks == 2
\* Longest time without a message that is told apart, in ticks.
MaxIdle == 2

\* ---------------------------------------------------------------- inputs
\* expected_chunks is None or an int; None is <<>> and an int n is <<n>>.
None == <<>>
NoId == "None"

\* total_chunks values a metadata message may carry.
TotalChunksVals == 0..MaxTotalChunks
\* image_id values a metadata message may carry; "" is an absent key.
ImageIdVals == {"", "img-1"}
\* The two index bytes of a chunk message: every index a transfer can
\* expect, and index 256 (high byte set).
IndexBytes == {<<0, i>> : i \in 0..(MaxTotalChunks - 1)} \cup {<<1, 0>>}
\* The bytes after the index.
DataVals == {<<1>>, <<2>>}
\* Non-empty payloads on the chunk topic: well-formed ones and a 1-byte one.
ChunkPayloads == {ib \o d : ib \in IndexBytes, d \in DataVals} \cup {<<0>>}

VARIABLES
    expected_chunks,  \* global expected_chunks
    received_data,    \* global received_data: chunk_num -> bytes
    image_id,         \* global image_id
    running,          \* client.loop_forever() has not been left by an exception
    calls,            \* calls made on the supabase client since the last metadata message
    out,              \* lines printed by the last on_message call (a traceback last)
    delivered,        \* history: chunk deliveries of the current transfer, per index
    superseded,       \* history: the current transfer's metadata message found a
                      \* transfer in progress with chunks buffered
    opened,           \* history: the image id of the metadata message that opened
                      \* the current transfer
    pc,               \* where the dispatching thread is: "idle" between callbacks,
                      \* "upload" inside line 42, "insert" inside lines 48-55
    idle,             \* history: ticks since the last message was handled
    foreign           \* history: buffered indices whose payload came from a chunk
                      \* message of a superseded transfer

vars == <<expected_chunks, received_data, image_id, running, calls, out, delivered,
          superseded, opened, pc, idle, foreign>>

\* ---------------------------------------------------------------- helpers
EmptyBuf == [i \in {} |-> <<>>]

Line(kind, n) == [kind |-> kind, n |-> n]

\* line 82: chunk_num = (msg.payload[0] << 8) | msg.payload[1]
ChunkNumWide(p) == (p[1] * 65536) + p[2]
ChunkNum(p) == (p[1] * 256) + p[2]

\* line 83: data = msg.payload[2:]
ChunkData(p) == SubSeq(p, 3, Len(p))

\* lines 84-88: a chunk index already in received_data is skipped
PutInRange(rd, n, d) ==
    IF n \in DOMAIN rd \/ (expected_chunks # None /\ n >= expected_chunks[1]) THEN rd
    ELSE [i \in (DOMAIN rd) \cup {n} |-> IF i = n THEN d ELSE rd[i]]
PutOverwrite(rd, n, d) == [i \in (DOMAIN rd) \cup {n} |-> IF i = n THEN d ELSE rd[i]]
Put(rd, n, d) ==
    IF n \in DOMAIN rd THEN rd
    ELSE [i \in (DOMAIN rd) \cup {n} |-> IF i = n THEN d ELSE rd[i]]

\* lines 31-37: the reassembly loop of upload_image_and_insert, from index i
\* with acc already written; stops at the first index not in received_data
RECURSIVE StitchSkipping(_, _, _, _)
StitchSkipping(rd, n, i, acc) ==
    IF i >= n THEN [ok |-> TRUE, bytes |-> acc, missing |-> <<>>]
    ELSE IF i \notin DOMAIN rd THEN StitchSkipping(rd, n, i + 1, acc)
    ELSE StitchSkipping(rd, n, i + 1, acc \o rd[i])

RECURSIVE StitchReversed(_, _, _, _)
StitchReversed(rd, n, i, acc) ==
    IF i >= n THEN [ok |-> TRUE, bytes |-> acc, missing |-> <<>>]
    ELSE IF i \notin DOMAIN rd THEN [ok |-> FALSE, bytes |-> acc, missing |-> <<i>>]
    ELSE StitchReversed(rd, n, i + 1, rd[i] \o acc)

RECURSIVE StitchOffByOne(_, _, _, _)
StitchOffByOne(rd, n, i, acc) ==
    IF i >= n THEN [ok |-> TRUE, bytes |-> acc, missing |-> <<>>]
    ELSE IF i \notin DOMAIN rd THEN [ok |-> FALSE, bytes |-> acc, missing |-> <<i + 1>>]
    ELSE StitchOffByOne(rd, n, i + 1, acc \o rd[i])

RECURSIVE StitchFrom(_, _, _, _)
StitchFrom(rd, n, i, acc) ==
    IF i >= n THEN [ok |-> TRUE, bytes |-> acc, missing |-> <<>>]
    ELSE IF i \notin DOMAIN rd THEN [ok |-> FALSE, bytes |-> acc, missing |-> <<i>>]
    ELSE StitchFrom(rd, n, i + 1, acc \o rd[i])

\* lines 30-37: image_bytes after the loop, or the index it stopped at
Reassemble(rd, n) == StitchFrom(rd, n, 0, <<>>)

\* line 40: filename = f"{image_id}.jpg"
FilenameJpeg(id) == id \o ".jpeg"
Filename(id) == id \o ".jpg"

\* line 68: meta.get("image_id", f"img-{utcnow:%Y%m%d%H%M%S}")
SynthesizedId == "img-20240101000000"
MetaImageId(id) == IF id = "" THEN SynthesizedId ELSE id

\* line 42: supabase.storage.from_(bucket).upload(filename, image_bytes, ...)
UploadCall(id, bytes) ==
    [op |-> "upload", key |-> Filename(id), body |-> bytes]
\* lines 48-55: supabase.table("gxp_raw_observations").insert({...}).execute()
InsertCall(id) ==
    [op |-> "insert", key |-> id, body |-> <<>>]

\* The delivery record of the current transfer after one more chunk (n, d):
\* the payload while index n was delivered once, a marker after that.  The
\* record starts empty at each metadata message and at each finalization.
Deliver(dl, n, d) ==
    [i \in (DOMAIN dl) \cup {n} |->
        IF i # n THEN dl[i]
        ELSE IF n \in DOMAIN dl THEN [once |-> FALSE, d |-> <<>>]
        ELSE [once |-> TRUE, d |-> d]]

\* line 69: received_data.clear() of the metadata branch
BufferKeptAtMetadata == received_data
BufferAfterMetadata == EmptyBuf

\* line 78: expected_chunks = None
ExpectedKeptAtFinalize == expected_chunks
ExpectedAfterFinalize == None

\* line 79: received_data.clear() of the end-marker branch
BufferKeptAtFinalize == received_data
BufferAfterFinalize == EmptyBuf

\* ---------------------------------------------------------------- state
Init ==
    /\ expected_chunks = None
    /\ received_data = EmptyBuf
    /\ image_id = NoId
    /\ running = TRUE
    /\ calls = <<>>
    /\ out = <<>>
    /\ delivered = EmptyBuf
    /\ superseded = FALSE
    /\ opened = NoId
    /\ pc = "idle"
    /\ idle = 0
    /\ foreign = {}

\* lines 65-70: a metadata message
Metadata(tc, id) ==
    /\ running
    /\ expected_chunks' = <<tc>>
    /\ image_id' = MetaImageId(id)
    /\ received_data' = BufferAfterMetadata
    /\ out' = <<Line("Expecting", tc)>>
    /\ calls' = <<>>
    /\ delivered' = EmptyBuf
    /\ superseded' = (expected_chunks # None /\ received_data # EmptyBuf)
    /\ UNCHANGED running
    /\ opened' = (IF id = "" THEN SynthesizedId ELSE id)
    /\ idle' = 0
    /\ foreign' = {}
    /\ UNCHANGED pc

\* lines 66-67: the payload is not JSON, or has no "total_chunks"; the
\* exception leaves on_message and loop_forever
MetadataMalformed ==
    /\ running
    /\ running' = FALSE
    /\ out' = <<Line("raise ValueError/KeyError", 0)>>
    /\ UNCHANGED <<expected_chunks, received_data, image_id, calls, delivered, superseded>>
    /\ idle' = 0
    /\ UNCHANGED <<opened, pc, foreign>>

EndMarkerNoMetadataClears ==
    /\ running
    /\ expected_chunks = None
    /\ out' = <<Line("No metadata received before end marker", 0)>>
    /\ expected_chunks' = None
    /\ received_data' = EmptyBuf
    /\ UNCHANGED <<image_id, running, calls, delivered, superseded>>
    /\ idle' = 0
    /\ UNCHANGED <<opened, pc, foreign>>

\* lines 72-75: end marker, no metadata known
EndMarkerNoMetadata ==
    /\ running
    /\ expected_chunks = None
    /\ out' = <<Line("No metadata received before end marker", 0)>>
    /\ UNCHANGED <<expected_chunks, received_data, image_id, running, calls, delivered, superseded>>
    /\ idle' = 0
    /\ UNCHANGED <<opened, pc, foreign>>

\* lines 76-79 with 32-35: end marker, a chunk is missing
EndMarkerMissing ==
    /\ running
    /\ expected_chunks # None
    /\ LET r == Reassemble(received_data, expected_chunks[1]) IN
        /\ ~r.ok
        /\ out' = <<Line("End marker received", 0), Line("Missing chunk", r.missing[1])>>
    /\ expected_chunks' = ExpectedAfterFinalize
    /\ received_data' = BufferAfterFinalize
    /\ delivered' = EmptyBuf
    /\ UNCHANGED <<image_id, running, calls, superseded>>
    /\ idle' = 0
    /\ foreign' = {}
    /\ UNCHANGED <<opened, pc>>

\* lines 76-79 with 37-56: end marker, all chunks present, the sink succeeds
EndMarkerUploaded ==
    /\ running
    /\ expected_chunks # None
    /\ LET r == Reassemble(received_data, expected_chunks[1]) IN
        /\ r.ok
        /\ calls' = calls \o <<UploadCall(image_id, r.bytes), InsertCall(image_id)>>
    /\ out' = <<Line("End marker received", 0),
                Line("All chunks stitched", expected_chunks[1]),
                Line("Uploaded and inserted record", 0)>>
    /\ expected_chunks' = ExpectedAfterFinalize
    /\ received_data' = BufferAfterFinalize
    /\ delivered' = EmptyBuf
    /\ UNCHANGED <<image_id, running, superseded>>
    /\ idle' = 0
    /\ foreign' = {}
    /\ UNCHANGED <<opened, pc>>

EndMarkerUploadRaisesThenInserts ==
    /\ running
    /\ expected_chunks # None
    /\ LET r == Reassemble(received_data, expected_chunks[1]) IN
        /\ r.ok
        /\ calls' = calls \o <<UploadCall(image_id, r.bytes), InsertCall(image_id)>>
    /\ out' = <<Line("End marker received", 0),
                Line("All chunks stitched", expected_chunks[1]),
                Line("raise StorageError in upload", 0)>>
    /\ running' = FALSE
    /\ UNCHANGED <<expected_chunks, received_data, image_id, delivered, superseded>>
    /\ idle' = 0
    /\ UNCHANGED <<opened, pc, foreign>>

\* lines 76-77 with 37-42: upload raises; the exception leaves
\* upload_image_and_insert, on_message (before line 78) and loop_forever
EndMarkerUploadRaises ==
    /\ running
    /\ expected_chunks # None
    /\ LET r == Reassemble(received_data, expected_chunks[1]) IN
        /\ r.ok
        /\ calls' = Append(calls, UploadCall(image_id, r.bytes))
    /\ out' = <<Line("End marker received", 0),
                Line("All chunks stitched", expected_chunks[1]),
                Line("raise StorageError in upload", 0)>>
    /\ running' = FALSE
    /\ UNCHANGED <<expected_chunks, received_data, image_id, delivered, superseded>>
    /\ idle' = 0
    /\ UNCHANGED <<opened, pc, foreign>>

\* lines 76-77 with 37-55: upload returns, insert(...).execute() raises
EndMarkerInsertRaises ==
    /\ running
    /\ expected_chunks # None
    /\ LET r == Reassemble(received_data, expected_chunks[1]) IN
        /\ r.ok
        /\ calls' = calls \o <<UploadCall(image_id, r.bytes), InsertCall(image_id)>>
    /\ out' = <<Line("End marker received", 0),
                Line("All chunks stitched", expected_chunks[1]),
                Line("raise APIError in insert", 0)>>
    /\ running' = FALSE
    /\ UNCHANGED <<expected_chunks, received_data, image_id, delivered, superseded>>
    /\ idle' = 0
    /\ UNCHANGED <<opened, pc, foreign>>

\* lines 72-79: a zero-length message on the chunk topic
EndMarker ==
    \/ EndMarkerNoMetadata
    \/ EndMarkerMissing
    \/ EndMarkerUploaded
    \/ EndMarkerUploadRaises
    \/ EndMarkerInsertRaises

ChunkMalformedPadded(p) ==
    /\ running
    /\ Len(p) = 1
    /\ received_data' = Put(received_data, p[1] * 256, <<>>)
    /\ out' = <<Line("raise IndexError", 0)>>
    /\ running' = FALSE
    /\ UNCHANGED <<expected_chunks, image_id, calls, delivered, superseded>>
    /\ idle' = 0
    /\ UNCHANGED <<opened, pc, foreign>>

\* line 82 on a 1-byte payload: msg.payload[1] raises IndexError, which
\* leaves on_message and loop_forever
ChunkMalformed(p) ==
    /\ running
    /\ Len(p) = 1
    /\ running' = FALSE
    /\ out' = <<Line("raise IndexError", 0)>>
    /\ UNCHANGED <<expected_chunks, received_data, image_id, calls, delivered, superseded>>
    /\ idle' = 0
    /\ UNCHANGED <<opened, pc, foreign>>

\* lines 81-88: a chunk message of two bytes or more
Chunk(p) ==
    /\ running
    /\ Len(p) >= 2
    /\ LET chunk_num == ChunkNum(p)
           data == ChunkData(p) IN
        /\ received_data' = Put(received_data, chunk_num, data)
        /\ out' = IF chunk_num \in DOMAIN received_data
                  THEN <<Line("Duplicate chunk", chunk_num)>>
                  ELSE <<Line("Chunk received", chunk_num)>>
        /\ delivered' = Deliver(delivered, chunk_num, data)
    /\ UNCHANGED <<expected_chunks, image_id, running, calls, superseded>>
    /\ idle' = 0
    /\ UNCHANGED <<opened, pc, foreign>>

\* lines 62-88: on_message, once per message the broker delivers
Next ==
    \/ \E tc \in TotalChunksVals, id \in ImageIdVals : Metadata(tc, id)
    \/ MetadataMalformed
    \/ EndMarker
    \/ \E p \in ChunkPayloads : ChunkMalformed(p)
    \/ \E p \in ChunkPayloads : Chunk(p)

Spec == Init /\ [][Next]_vars

\* ------------------------------------------- the storage handoff, call by call
\* lines 76-77 with 31-42: end marker, all chunks present; on_message has
\* called upload and is waiting for it to return
EndMarkerCallsUpload ==
    /\ running /\ pc = "idle"
    /\ expected_chunks # None
    /\ LET r == Reassemble(received_data, expected_chunks[1]) IN
        /\ r.ok
        /\ calls' = Append(calls, UploadCall(image_id, r.bytes))
    /\ out' = <<Line("End marker received", 0),
                Line("All chunks stitched", expected_chunks[1])>>
    /\ pc' = "upload"
    /\ idle' = 0
    /\ UNCHANGED <<expected_chunks, received_data, image_id, running, delivered,
                   superseded, opened, foreign>>

\* lines 42-55: upload has returned; on_message has called insert(...).execute()
UploadReturns ==
    /\ running /\ pc = "upload"
    /\ calls' = Append(calls, InsertCall(image_id))
    /\ pc' = "insert"
    /\ UNCHANGED <<expected_chunks, received_data, image_id, running, out, delivered,
                   superseded, opened, idle, foreign>>

\* line 42: upload raises; the exception leaves on_message and loop_forever
UploadRaises ==
    /\ running /\ pc = "upload"
    /\ out' = Append(out, Line("raise StorageError in upload", 0))
    /\ running' = FALSE
    /\ pc' = "idle"
    /\ UNCHANGED <<expected_chunks, received_data, image_id, calls, delivered,
                   superseded, opened, idle, foreign>>

\* lines 55-56 and 78-79: insert has returned; on_message finishes
InsertReturns ==
    /\ running /\ pc = "insert"
    /\ out' = Append(out, Line("Uploaded and inserted record", 0))
    /\ expected_chunks' = ExpectedAfterFinalize
    /\ received_data' = BufferAfterFinalize
    /\ delivered' = EmptyBuf
    /\ foreign' = {}
    /\ pc' = "idle"
    /\ UNCHANGED <<image_id, running, calls, superseded, opened, idle>>

\* line 55: insert(...).execute() raises
InsertRaises ==
    /\ running /\ pc = "insert"
    /\ out' = Append(out, Line("raise APIError in insert", 0))
    /\ running' = FALSE
    /\ pc' = "idle"
    /\ UNCHANGED <<expected_chunks, received_data, image_id, calls, delivered,
                   superseded, opened, idle, foreign>>

\* line 99: loop_forever calls on_message in its own thread, one message
\* after the other: the next call starts when the previous one has returned
Dispatch ==
    /\ pc = "idle"
    /\ \/ \E tc \in TotalChunksVals, id \in ImageIdVals : Metadata(tc, id)
       \/ MetadataMalformed
       \/ EndMarkerNoMetadata
       \/ EndMarkerMissing
       \/ EndMarkerCallsUpload
       \/ \E p \in ChunkPayloads : ChunkMalformed(p)
       \/ \E p \in ChunkPayloads : Chunk(p)

NextIO ==
    \/ Dispatch
    \/ UploadReturns
    \/ UploadRaises
    \/ InsertReturns
    \/ InsertRaises

SpecIO == Init /\ [][NextIO]_vars

\* ------------------------------------------- time passing between messages
\* No message arrives for one tick.  The script starts no timer and no
\* thread, so nothing but on_message ever writes the globals.
Tick ==
    /\ running
    /\ idle < MaxIdle
    /\ idle' = idle + 1
    /\ UNCHANGED <<expected_chunks, received_data, image_id, running, calls, out,
                   delivered, superseded, opened, pc, foreign>>

NextIdle ==
    \/ Next
    \/ Tick

SpecIdle == Init /\ [][NextIdle]_vars

\* ------------------------------------------- late delivery by the broker
\* lines 81-88 on a chunk message that the sender published for the transfer
\* the current one superseded and that the broker delivers only now; the
\* payload carries no transfer id, so the handler treats it as any chunk
StaleChunk(p) ==
    /\ running
    /\ superseded
    /\ Len(p) >= 2
    /\ LET chunk_num == ChunkNum(p)
           data == ChunkData(p) IN
        /\ received_data' = Put(received_data, chunk_num, data)
        /\ out' = IF chunk_num \in DOMAIN received_data
                  THEN <<Line("Duplicate chunk", chunk_num)>>
                  ELSE <<Line("Chunk received", chunk_num)>>
        /\ delivered' = Deliver(delivered, chunk_num, data)
        /\ foreign' = IF chunk_num \in DOMAIN received_data
                      THEN foreign ELSE foreign \cup {chunk_num}
    /\ idle' = 0
    /\ UNCHANGED <<expected_chunks, image_id, running, calls, superseded, opened, pc>>

NextTransport ==
    \/ Next
    \/ \E p \in ChunkPayloads : StaleChunk(p)

SpecTransport == Init /\ [][NextTransport]_vars

\* ---------------------------------------------------------------- properties
LastLine == IF out = <<>> THEN "" ELSE out[Len(out)].kind
Uploads == {k \in DOMAIN calls : calls[k].op = "upload"}
Inserts == {k \in DOMAIN calls : calls[k].op = "insert"}
\* A transfer is in Receiving: metadata is known.
Receiving == expected_chunks # None
\* The indices of [0, n) that rd does not hold.
Absent(rd, n) == {i \in 0..(n - 1) : i \notin DOMAIN rd}
\* The step is on_message handling some metadata message.
MetadataStep == \E tc \in TotalChunksVals, id \in ImageIdVals : Metadata(tc, id)
\* Every index of [0, n) was delivered exactly once in the current transfer.
DeliveredOnce(n) == \A i \in 0..(n - 1) : i \in DOMAIN delivered /\ delivered[i].once
\* payload(0) + ... + payload(n-1) of the current transfer's deliveries.
RECURSIVE InIndexOrder(_)
InIndexOrder(n) == IF n <= 0 THEN <<>> ELSE InIndexOrder(n - 1) \o delivered[n - 1].d

\* C1: when every index of [0, N), N >= 1, was delivered exactly once after
\* the metadata message, the end marker calls upload with
\* payload(0) + ... + payload(N-1), whatever the order of arrival.
C1_UploadIsIndexOrderConcat ==
    [][(Receiving /\ expected_chunks[1] >= 1
            /\ DeliveredOnce(expected_chunks[1]) /\ EndMarker)
        => /\ Len(calls') > Len(calls)
           /\ calls'[Len(calls) + 1].op = "upload"
           /\ calls'[Len(calls) + 1].body = InIndexOrder(expected_chunks[1])]_vars
\* An upload of two chunks whose payloads differ, index 0 carrying <<2>>.
C1_Witness ==
    /\ LastLine = "Uploaded and inserted record"
    /\ calls[1].op = "upload" /\ calls[1].body = <<2, 1>>

\* C2: an end marker processed while an index of [0, expected_chunks) is
\* absent makes no storage call.
C2_NoPartialUpload ==
    [][(Receiving /\ Absent(received_data, expected_chunks[1]) # {} /\ EndMarker)
        => calls' = calls]_vars
\* Finalization failed on index 1: chunk 0 was buffered, nothing was sent.
C2_Witness ==
    /\ LastLine = "Missing chunk" /\ out[Len(out)].n = 1
    /\ calls = <<>>

\* C3: a transfer has at most one upload and at most one insert, and a
\* transfer that completed has exactly one of each.
C3_AtMostOnce ==
    /\ Cardinality(Uploads) <= 1
    /\ Cardinality(Inserts) <= 1
    /\ LastLine = "Uploaded and inserted record"
        => Cardinality(Uploads) = 1 /\ Cardinality(Inserts) = 1
\* A completed transfer, then one more end marker: still one call of each.
C3_Witness ==
    /\ LastLine = "No metadata received before end marker"
    /\ Cardinality(Uploads) = 1 /\ Cardinality(Inserts) = 1

\* C4: a metadata message that finds a transfer in Receiving empties the
\* buffer and makes no storage call, and every chunk a later upload stitches
\* was delivered after that metadata message.
C4_SupersededBufferDiscarded ==
    [][/\ (Receiving /\ MetadataStep) => (received_data' = EmptyBuf /\ calls' = <<>>)
       /\ \A i \in DOMAIN received_data' :
            /\ i \in DOMAIN delivered'
            /\ delivered'[i].once => received_data'[i] = delivered'[i].d
       /\ (Len(calls') > Len(calls) /\ EndMarker)
            => \A i \in 0..(expected_chunks[1] - 1) : i \in DOMAIN delivered]_vars
\* A transfer that superseded one with buffered chunks has uploaded.
C4_Witness ==
    /\ superseded
    /\ LastLine = "Uploaded and inserted record"
    /\ calls[1].body # <<>>

\* C5: a payload the buffer holds is changed or removed only by a metadata
\* message or by finalization, so never by a later chunk message.
C5_FirstArrivalKept ==
    [][(\E i \in DOMAIN received_data :
            i \notin DOMAIN received_data' \/ received_data'[i] # received_data[i])
        => (MetadataStep \/ (Receiving /\ EndMarker))]_vars
\* The last message repeated an index that is still buffered.
C5_Witness ==
    /\ LastLine = "Duplicate chunk"
    /\ out[1].n \in DOMAIN received_data
    /\ ~delivered[out[1].n].once

\* C6: after upload or insert raised, the session is evicted: expected chunk
\* count cleared, buffer emptied.
C6_EvictedAfterStorageError ==
    LastLine \in {"raise StorageError in upload", "raise APIError in insert"}
        => expected_chunks = None /\ received_data = EmptyBuf

\* C7: the dispatcher is running after every message, whatever error the
\* message caused.
C7_DispatcherKeepsRunning ==
    LastLine \in {"raise IndexError", "raise StorageError in upload",
                  "raise APIError in insert", "Missing chunk", "Duplicate chunk",
                  "No metadata received before end marker"}
        => running

\* C8: a 1-byte message on the chunk topic leaves expected chunk count,
\* transfer id and buffer unchanged.
C8_MalformedChunkFrame ==
    [][(\E p \in ChunkPayloads : Len(p) = 1 /\ ChunkMalformed(p))
        => UNCHANGED <<expected_chunks, image_id, received_data>>]_vars
\* A 1-byte chunk message was handled in Receiving with chunks buffered.
C8_Witness ==
    /\ LastLine = "raise IndexError"
    /\ Receiving /\ received_data # EmptyBuf

\* C9: an end marker processed while expected_chunks is None changes nothing
\* and makes no storage call.
C9_EndMarkerWithoutMetadataNoOp ==
    [][(~Receiving /\ EndMarker)
        => UNCHANGED <<expected_chunks, image_id, received_data, calls, running>>]_vars
\* An end marker without metadata was handled with chunks in the buffer.
C9_Witness ==
    /\ LastLine = "No metadata received before end marker"
    /\ ~Receiving /\ received_data # EmptyBuf

\* The indices the last on_message call reported missing.
Reported(o) == {o[k].n : k \in {j \in DOMAIN o : o[j].kind = "Missing chunk"}}
Min(S) == CHOOSE x \in S : \A y \in S : x <= y

C11_AtMostExpectedIndices ==
    (Receiving /\ expected_chunks[1] >= 1)
        => Cardinality(DOMAIN received_data) <= expected_chunks[1]
\* C11: every index the buffer holds is a 16-bit value delivered by a chunk
\* message since the buffer was last cleared; their number is not bounded by
\* expected_chunks.
C11_IndicesAreDelivered16Bit ==
    \A i \in DOMAIN received_data : 0 <= i /\ i <= 65535 /\ i \in DOMAIN delivered
\* A transfer expecting one chunk holds two indices or more.
C11_Witness ==
    /\ Receiving /\ expected_chunks[1] = 1
    /\ Cardinality(DOMAIN received_data) >= 2

\* C12: an end marker in Receiving that ends in Completed or in a missing
\* chunk leaves expected_chunks None and the buffer empty, and from then on
\* only a metadata message touches the record of storage calls.
C12_EvictedAfterFinalization ==
    [][/\ (Receiving /\ running' /\ EndMarker)
            => (expected_chunks' = None /\ received_data' = EmptyBuf)
       /\ (~Receiving /\ calls' # calls) => MetadataStep]_vars
\* A chunk arrived after a completed transfer was evicted: still two calls.
C12_Witness ==
    /\ LastLine = "Chunk received"
    /\ ~Receiving /\ Len(calls) = 2

\* C16: whenever expected_chunks is set it is a positive integer.
C16_ExpectedIsPositive ==
    Receiving => expected_chunks[1] >= 1

\* The payloads rd holds for 0..n-1, in index order.
RECURSIVE RangeConcat(_, _)
RangeConcat(rd, n) == IF n <= 0 THEN <<>> ELSE RangeConcat(rd, n - 1) \o rd[n - 1]

\* C17: every chunk index delivered is buffered, also one >= expected_chunks;
\* the end marker uploads exactly when no index of [0, expected_chunks) is
\* absent, and the bytes uploaded are those of the indices of that range only.
C17_OutOfRangeAcceptedAndIgnored ==
    [][/\ DOMAIN delivered' \subseteq DOMAIN received_data'
       /\ (Receiving /\ EndMarker)
            => ((Len(calls') > Len(calls))
                    <=> (Absent(received_data, expected_chunks[1]) = {}))
       /\ (Len(calls') > Len(calls) /\ EndMarker)
            => calls'[Len(calls) + 1].body
                    = RangeConcat(received_data, expected_chunks[1])]_vars
\* Upload was called with one chunk while index 256 sat in the buffer.
C17_Witness ==
    /\ LastLine = "raise StorageError in upload"
    /\ expected_chunks = <<1>> /\ 256 \in DOMAIN received_data
    /\ Len(calls[Len(calls)].body) = 1

\* C18: an insert directly follows the upload of the same finalization, no
\* finalization makes more than one call of each, and when upload raises no
\* insert is made.
C18_InsertAfterUpload ==
    /\ \A k \in Inserts : k > 1 /\ calls[k - 1].op = "upload"
    /\ \A k \in Uploads : k = 1
    /\ LastLine = "raise StorageError in upload" => Inserts = {}
\* Upload raised: the upload call is the only one.
C18_Witness ==
    /\ LastLine = "raise StorageError in upload"
    /\ Len(calls) = 1 /\ calls[1].op = "upload"

\* C20: while the dispatcher runs a metadata message can always be handled,
\* and whenever every index of [0, N), N >= 1, was delivered once since the
\* metadata message, whatever happened before it, the buffer holds exactly
\* those payloads and the end marker uploads them.
C20_HistoryCannotBlock ==
    /\ running => ENABLED MetadataStep
    /\ (running /\ Receiving /\ expected_chunks[1] >= 1
            /\ DeliveredOnce(expected_chunks[1]))
        => /\ \A i \in 0..(expected_chunks[1] - 1) :
                i \in DOMAIN received_data /\ received_data[i] = delivered[i].d
           /\ ENABLED EndMarkerUploaded
\* A transfer that superseded one with buffered chunks uploaded its own two.
C20_Witness ==
    /\ superseded
    /\ LastLine = "Uploaded and inserted record"
    /\ calls[1].body = <<1, 2>>

\* C13: while a storage call for a transfer of one chunk or more is in
\* progress the dispatcher can handle a metadata or chunk message.
C13_IngestionDuringStorageCall ==
    (running /\ pc # "idle" /\ expected_chunks[1] >= 1) => ENABLED Dispatch

\* C14: a session expecting one chunk or more that has seen no message for
\* the longest idle time told apart is no longer in Receiving.
C14_IdleSessionEvicted ==
    idle >= MaxIdle => ~(Receiving /\ expected_chunks[1] >= 1)

\* C15: every upload of the current transfer has the key opened + ".jpg" and
\* every insert carries opened, the id of the metadata message that opened
\* the transfer; image_id changes at metadata messages only.
C15_KeyIsOpeningId ==
    [][/\ \A k \in DOMAIN calls' :
            calls'[k].key = IF calls'[k].op = "upload" THEN opened' \o ".jpg" ELSE opened'
       /\ image_id' # image_id => MetadataStep]_vars
\* A transfer opened as img-1 after an earlier one uploaded and inserted.
C15_Witness ==
    /\ superseded /\ opened = "img-1"
    /\ Len(calls) = 2
    /\ calls[1].key = "img-1.jpg" /\ calls[2].key = "img-1"

\* C19: no chunk that an upload stitches came from a chunk message of an
\* earlier transfer.
C19_NoForeignChunkUploaded ==
    [][(Receiving /\ Len(calls') > Len(calls))
        => \A i \in 0..(expected_chunks[1] - 1) : i \notin foreign]_vars

====
